---- MODULE Spec2Model ----
(***************************************************************************)
(* Paper-trading ledger and order lifecycle of src/lib/paperTradingService *)
(* (avishmonga/ai-trading).  The module-level paperTradingStore is the     *)
(* state; every exported function is one action.  The two async functions *)
(* (executePaperTrade, cancelPaperTrade) suspend on a timer before they    *)
(* touch the store, so each is an Invoke step (the call is queued on its   *)
(* timer) followed by a Resume step (the synchronous rest of the body).    *)
(* Nothing reads the arguments of a suspended call before it resumes, so   *)
(* pendingExec and pendingCancel count the suspended calls and a call's    *)
(* arguments are drawn when it resumes.  triggerLog is a history variable: *)
(* one entry per call of executePaperStopLoss / executePaperTakeProfit,    *)
(* naming the position in trades of the order it closes and of the closing *)
(* order it pushes (trades is append-only between resets, so a position    *)
(* identifies a record).                                                   *)
(*                                                                         *)
(* Numbers: the source computes in IEEE doubles; the model computes in     *)
(* exact integers.  Prices and quantities are chosen so that every fee     *)
(* (orderValue * 0.001, orderValue * 0.00075) is an integer.               *)
(***************************************************************************)
EXTENDS Integers, Sequences, FiniteSets, TLC

VARIABLES paperTradingStore, triggerLog, pendingExec, pendingCancel, now

vars == <<paperTradingStore, triggerLog, pendingExec, pendingCancel, now>>

\* ---------------------------------------------------------------- bounds
MaxTrades == 2
MaxHistory == 1
MaxLog == 1
MaxPending == 2
MaxTime == 1

\* ------------------------------------------------------ program constants
StartUSD == 10000
StartUSDT == 10000
StartBTCPrice == 50000
StartETHPrice == 3000
StartBNBPrice == 500
\* fee rates are kept as integers per RateScale: 0.001 = 100 / 100000
RateScale == 100000
BaseFeeRate == 100
BnbDiscountPct == 75

\* ------------------------------------------------------------ input sets
SymbolVals == {"BTC", "BTCUSDT", "DOGE"}
TypeVals == {"buy", "sell"}
PriceVals == {4000, 8000}
QtyVals == {1}
LevelVals == {<<0, 0>>, <<4000, 12000>>, <<12000, 4000>>}
BudgetVals == {5000}
CurrencyVals == {"USD", "INR"}
FeedPrices == {4000, 8000, 12000}
AmountVals == {0, 1}
FundAssets == {"BTC"}
\* the callers of deposit and withdraw leave currency at its default
FundCurrencies == {"USD"}

Order(symbol, type, levels, useBnbForFees, currency) ==
  [symbol |-> symbol, type |-> type, price |-> 8000, quantity |-> 1,
   levels |-> levels, budget |-> 5000, currency |-> currency,
   useBnbForFees |-> useBnbForFees]

\* the orders the callers submit
OrderInputs ==
  {Order("BTC", "buy", <<4000, 12000>>, FALSE, "USD"),
   Order("BTC", "sell", <<12000, 4000>>, TRUE, "INR"),
   Order("BTCUSDT", "buy", <<0, 0>>, TRUE, "USD"),
   Order("BTCUSDT", "sell", <<0, 0>>, FALSE, "INR"),
   Order("DOGE", "buy", <<0, 0>>, FALSE, "USD")}

\* every order over the input sets, for the properties that quantify over
\* the orders an operation may be given
AllOrders ==
  [symbol : SymbolVals, type : TypeVals, price : PriceVals,
   quantity : QtyVals, levels : LevelVals, budget : BudgetVals,
   currency : CurrencyVals, useBnbForFees : BOOLEAN]

\* one order for every symbol, side, price, quantity and fee asset: the
\* fields that validation and the balance arithmetic read
ProbeOrders ==
  [symbol : SymbolVals, type : TypeVals, price : PriceVals,
   quantity : QtyVals, levels : {<<0, 0>>}, budget : BudgetVals,
   currency : {"USD"}, useBnbForFees : BOOLEAN]

\* -------------------------------------------------- JavaScript helpers
\* balances[k] || 0
Bal(b, k) == IF k \in DOMAIN b THEN b[k] ELSE 0

\* balances[k] = v, creating the key when it is absent
SetBal(b, k, v) == [x \in (DOMAIN b) \cup {k} |-> IF x = k THEN v ELSE b[x]]

\* prices[k], 0 standing for undefined (falsy)
PriceOf(p, k) == IF k \in DOMAIN p THEN p[k] ELSE 0

\* symbol.replace('USDT', '') on the symbols in use: removes the first
\* occurrence of the substring USDT
replaceUSDT(symbol) ==
  CASE symbol = "BTCUSDT" -> "BTC"
    [] symbol = "ETHUSDT" -> "ETH"
    [] symbol = "BNBUSDT" -> "BNB"
    [] symbol = "USDT" -> ""
    [] OTHER -> symbol

\* trades.findIndex(t => t.orderId === orderId); 0 stands for -1
RECURSIVE findFrom(_, _, _)
findFrom(trades, orderId, i) ==
  IF i > Len(trades) THEN 0
  ELSE IF trades[i].orderId = orderId THEN i
  ELSE findFrom(trades, orderId, i + 1)

findIndex(trades, orderId) == findFrom(trades, orderId, 1)

\* Math.floor(Math.random() * 1000) in an id `${prefix}-${Date.now()}-${n}`.
\* Ids are only ever compared for equality, so a draw is represented up to
\* renaming: it repeats a number already drawn for this prefix in this
\* millisecond, or it is the least number not drawn yet.
Draws(records, prefix, t) ==
  LET used == {records[i][3] :
                 i \in {k \in 1..Len(records) :
                          records[k][1] = prefix /\ records[k][2] = t}}
  IN used \cup {Cardinality(used)}

idsOf(records) == [i \in 1..Len(records) |-> records[i].orderId]

logIdsOf(records) == [i \in 1..Len(records) |-> records[i].id]

\* ------------------------------------------------------------- the store
initialBalances ==
  [a \in {"USD", "BTC", "ETH", "BNB", "USDT"} |->
     IF a = "USD" THEN StartUSD ELSE IF a = "USDT" THEN StartUSDT ELSE 0]

initialPrices ==
  [a \in {"BTC", "ETH", "BNB"} |->
     IF a = "BTC" THEN StartBTCPrice
     ELSE IF a = "ETH" THEN StartETHPrice ELSE StartBNBPrice]

initialStore ==
  [trades |-> <<>>, balances |-> initialBalances, prices |-> initialPrices,
   tradeHistory |-> <<>>, deposits |-> <<>>, withdrawals |-> <<>>,
   totalProfitLoss |-> 0]

\* ------------------------------------------------------------------ fees
\* calculatePaperTradingFee with the BNB factor above 1: a surcharge of 25%
\* instead of the discount
calculatePaperTradingFeeSurcharge(symbol, price, quantity, useBnbForFees) ==
  LET feeRate == IF useBnbForFees
                 THEN (BaseFeeRate * (200 - BnbDiscountPct)) \div 100
                 ELSE BaseFeeRate
      orderValue == price * quantity
  IN [amount |-> (orderValue * feeRate) \div RateScale,
      asset |-> IF useBnbForFees THEN "BNB" ELSE "USDT",
      rate |-> feeRate]

calculatePaperTradingFee(symbol, price, quantity, useBnbForFees) ==
  LET feeRate == IF useBnbForFees
                 THEN (BaseFeeRate * BnbDiscountPct) \div 100
                 ELSE BaseFeeRate
      orderValue == price * quantity
  IN [amount |-> (orderValue * feeRate) \div RateScale,
      asset |-> IF useBnbForFees THEN "BNB" ELSE "USDT",
      rate |-> feeRate]

\* calculateTradingFees of the trading utilities: feeRate is given per
\* RateScale, the result is the fee amount
calculateTradingFees(orderValue, feeRate, useBnbForFees) ==
  LET effectiveFeeRate == IF useBnbForFees
                          THEN (feeRate * BnbDiscountPct) \div 100
                          ELSE feeRate
  IN (orderValue * effectiveFeeRate) \div RateScale

\* ------------------------------------------------------------ validation
\* validateTrade with the Sell comparison off by one: balance <= quantity
\* is refused, so selling the whole holding fails
validateTradeSellAll(store, order) ==
  IF PriceOf(store.prices, replaceUSDT(order.symbol)) = 0
  THEN "InvalidSymbol"
  ELSE IF /\ order.type = "buy"
          /\ store.balances["USDT"] < order.price * order.quantity
  THEN "InsufficientBalance"
  ELSE IF /\ order.type = "sell"
          /\ Bal(store.balances, replaceUSDT(order.symbol)) <= order.quantity
  THEN "InsufficientBalance"
  ELSE ""

\* "" when the order passes, else the kind of the Error thrown
validateTrade(store, order) ==
  IF PriceOf(store.prices, replaceUSDT(order.symbol)) = 0
  THEN "InvalidSymbol"
  ELSE IF /\ order.type = "buy"
          /\ store.balances["USDT"] < order.price * order.quantity
  THEN "InsufficientBalance"
  ELSE IF /\ order.type = "sell"
          /\ \/ Bal(store.balances, replaceUSDT(order.symbol)) = 0
             \/ Bal(store.balances, replaceUSDT(order.symbol)) < order.quantity
  THEN "InsufficientBalance"
  ELSE ""

\* ------------------------------------------------------- balance updates
\* updatePaperTradingStore whose Sell branch takes the quantity out of the
\* base asset of the symbol (USDT suffix removed) while the Buy branch
\* still credits the symbol itself
updatePaperTradingStoreSellBase(balances, trade) ==
  IF trade.type = "buy"
  THEN LET b1 == [balances EXCEPT !["USDT"] = @ - trade.price * trade.quantity]
           b2 == SetBal(b1, trade.symbol, Bal(b1, trade.symbol) + trade.quantity)
       IN SetBal(b2, trade.fee.asset, Bal(b2, trade.fee.asset) - trade.fee.amount)
  ELSE LET b1 == [balances EXCEPT !["USDT"] = @ + trade.price * trade.quantity]
           b2 == SetBal(b1, replaceUSDT(trade.symbol),
                        Bal(b1, replaceUSDT(trade.symbol)) - trade.quantity)
       IN SetBal(b2, trade.fee.asset, Bal(b2, trade.fee.asset) - trade.fee.amount)

updatePaperTradingStore(balances, trade) ==
  IF trade.type = "buy"
  THEN LET b1 == [balances EXCEPT !["USDT"] = @ - trade.price * trade.quantity]
           b2 == SetBal(b1, trade.symbol, Bal(b1, trade.symbol) + trade.quantity)
       IN SetBal(b2, trade.fee.asset, Bal(b2, trade.fee.asset) - trade.fee.amount)
  ELSE LET b1 == [balances EXCEPT !["USDT"] = @ + trade.price * trade.quantity]
           b2 == SetBal(b1, trade.symbol, Bal(b1, trade.symbol) - trade.quantity)
       IN SetBal(b2, trade.fee.asset, Bal(b2, trade.fee.asset) - trade.fee.amount)

\* reverseTradeBalanceChanges without the refund of the fee
reverseTradeBalanceChangesKeepFee(balances, trade) ==
  IF trade.type = "buy"
  THEN LET b1 == [balances EXCEPT !["USDT"] = @ + trade.price * trade.quantity]
       IN SetBal(b1, trade.symbol, Bal(b1, trade.symbol) - trade.quantity)
  ELSE LET b1 == [balances EXCEPT !["USDT"] = @ - trade.price * trade.quantity]
       IN SetBal(b1, trade.symbol, Bal(b1, trade.symbol) + trade.quantity)

reverseTradeBalanceChanges(balances, trade) ==
  IF trade.type = "buy"
  THEN LET b1 == [balances EXCEPT !["USDT"] = @ + trade.price * trade.quantity]
           b2 == SetBal(b1, trade.symbol, Bal(b1, trade.symbol) - trade.quantity)
       IN SetBal(b2, trade.fee.asset, Bal(b2, trade.fee.asset) + trade.fee.amount)
  ELSE LET b1 == [balances EXCEPT !["USDT"] = @ - trade.price * trade.quantity]
           b2 == SetBal(b1, trade.symbol, Bal(b1, trade.symbol) + trade.quantity)
       IN SetBal(b2, trade.fee.asset, Bal(b2, trade.fee.asset) + trade.fee.amount)

\* --------------------------------------------------------- executeOrder
\* newTrade that converts the price of an order denominated in INR before
\* it records it (2 standing for the exchange rate)
newTradeConverted(order, t, r) ==
  [orderId |-> <<"PAPER", t, r>>,
   symbol |-> order.symbol, type |-> order.type,
   price |-> IF order.currency = "INR" THEN order.price * 2 ELSE order.price,
   quantity |-> order.quantity, status |-> "executed", timestamp |-> t,
   stopLoss |-> order.levels[1], takeProfit |-> order.levels[2],
   budget |-> order.budget, currency |-> order.currency,
   message |-> <<"order executed", 0>>,
   fee |-> calculatePaperTradingFee(order.symbol, order.price,
                                    order.quantity, order.useBnbForFees),
   currentPnL |-> <<0>>, currentPnLPercentage |-> <<<<0, 1>>>>]

\* the body of executePaperTrade after its timer: t is Date.now(), r the
\* Math.random() draw of the order id
newTrade(order, t, r) ==
  [orderId |-> <<"PAPER", t, r>>,
   symbol |-> order.symbol, type |-> order.type, price |-> order.price,
   quantity |-> order.quantity, status |-> "executed", timestamp |-> t,
   stopLoss |-> order.levels[1], takeProfit |-> order.levels[2],
   budget |-> order.budget, currency |-> order.currency,
   message |-> <<"order executed", 0>>,
   fee |-> calculatePaperTradingFee(order.symbol, order.price,
                                    order.quantity, order.useBnbForFees),
   currentPnL |-> <<0>>, currentPnLPercentage |-> <<<<0, 1>>>>]

\* executePaperTrade with the balance update moved before the validation:
\* a rejected order has already changed the balances
executePaperTradeUpdateFirst(store, order, t, r) ==
  LET err == validateTrade(store, order)
      trade == newTrade(order, t, r)
      updated == [store EXCEPT !.balances = updatePaperTradingStore(@, trade)]
  IN IF err # ""
     THEN [store |-> updated, ok |-> FALSE, err |-> err]
     ELSE [store |-> [updated EXCEPT !.trades = Append(@, trade)],
           ok |-> TRUE, err |-> ""]

executePaperTrade(store, order, t, r) ==
  LET err == validateTrade(store, order)
      trade == newTrade(order, t, r)
  IN IF err # ""
     THEN [store |-> store, ok |-> FALSE, err |-> err]
     ELSE [store |-> [store EXCEPT
                        !.balances = updatePaperTradingStore(@, trade),
                        !.trades = Append(@, trade)],
           ok |-> TRUE, err |-> ""]

\* ---------------------------------------------------------- active set
isActive(trade) == trade.status = "executed" \/ trade.status = "pending"

getActivePaperTrades(trades) == SelectSeq(trades, isActive)

\* ---------------------------------------------------------- cancelOrder
\* cancelPnL that also charges a closing fee at the current price
cancelPnLClosingFee(prices, trade) ==
  LET currentPrice == PriceOf(prices, replaceUSDT(trade.symbol))
  IN IF currentPrice = 0 THEN 0
     ELSE (IF trade.type = "buy"
           THEN (currentPrice - trade.price) * trade.quantity
           ELSE (trade.price - currentPrice) * trade.quantity)
          - trade.fee.amount
          - (currentPrice * trade.quantity * BaseFeeRate) \div RateScale

\* (currentPrice - price) * quantity for a buy, reversed for a sell, minus
\* the fee recorded at entry; 0 when the symbol has no price
cancelPnL(prices, trade) ==
  LET currentPrice == PriceOf(prices, replaceUSDT(trade.symbol))
  IN IF currentPrice = 0 THEN 0
     ELSE (IF trade.type = "buy"
           THEN (currentPrice - trade.price) * trade.quantity
           ELSE (trade.price - currentPrice) * trade.quantity)
          - trade.fee.amount

\* (pnl / investment) * 100 kept as the fraction <<pnl * 100, investment>>
cancelPnLPercentage(prices, trade) ==
  IF PriceOf(prices, replaceUSDT(trade.symbol)) = 0 THEN <<0, 1>>
  ELSE <<cancelPnL(prices, trade) * 100, trade.price * trade.quantity>>

\* cancelPaperTrade without the write-back of the cancelled record into
\* trades: the order stays Executed in the open set
cancelPaperTradeNoWriteBack(store, orderId) ==
  LET tradeIndex == findIndex(store.trades, orderId)
  IN IF tradeIndex = 0
     THEN [store |-> store, ok |-> FALSE, err |-> "NotFound"]
     ELSE LET pnl == cancelPnL(store.prices, store.trades[tradeIndex])
              trade == [store.trades[tradeIndex] EXCEPT
                          !.status = "cancelled",
                          !.message = <<"trade cancelled", 0>>,
                          !.currentPnL = <<pnl>>,
                          !.currentPnLPercentage =
                             <<cancelPnLPercentage(store.prices,
                                                   store.trades[tradeIndex])>>]
          IN [store |-> [store EXCEPT
                           !.tradeHistory = Append(@, trade),
                           !.totalProfitLoss = @ + pnl,
                           !.balances = reverseTradeBalanceChanges(@, trade)],
              ok |-> TRUE, err |-> ""]

\* cancelPaperTrade that records the realized PnL in the history record but
\* does not add it to totalProfitLoss
cancelPaperTradeNoTotal(store, orderId) ==
  LET tradeIndex == findIndex(store.trades, orderId)
  IN IF tradeIndex = 0
     THEN [store |-> store, ok |-> FALSE, err |-> "NotFound"]
     ELSE LET pnl == cancelPnL(store.prices, store.trades[tradeIndex])
              trade == [store.trades[tradeIndex] EXCEPT
                          !.status = "cancelled",
                          !.message = <<"trade cancelled", 0>>,
                          !.currentPnL = <<pnl>>,
                          !.currentPnLPercentage =
                             <<cancelPnLPercentage(store.prices,
                                                   store.trades[tradeIndex])>>]
          IN [store |-> [store EXCEPT
                           !.trades[tradeIndex] = trade,
                           !.tradeHistory = Append(@, trade),
                           !.balances = reverseTradeBalanceChanges(@, trade)],
              ok |-> TRUE, err |-> ""]

\* the body of cancelPaperTrade after its timer
cancelPaperTrade(store, orderId) ==
  LET tradeIndex == findIndex(store.trades, orderId)
  IN IF tradeIndex = 0
     THEN [store |-> store, ok |-> FALSE, err |-> "NotFound"]
     ELSE LET pnl == cancelPnL(store.prices, store.trades[tradeIndex])
              trade == [store.trades[tradeIndex] EXCEPT
                          !.status = "cancelled",
                          !.message = <<"trade cancelled", 0>>,
                          !.currentPnL = <<pnl>>,
                          !.currentPnLPercentage =
                             <<cancelPnLPercentage(store.prices,
                                                   store.trades[tradeIndex])>>]
          IN [store |-> [store EXCEPT
                           !.trades[tradeIndex] = trade,
                           !.tradeHistory = Append(@, trade),
                           !.totalProfitLoss = @ + pnl,
                           !.balances = reverseTradeBalanceChanges(@, trade)],
              ok |-> TRUE, err |-> ""]

\* what a successful cancelPaperTrade returns: the record it stored, spread
\* together with the local pnl and pnlPercentage
cancelPaperTradeReturn(store, orderId) ==
  LET tradeIndex == findIndex(store.trades, orderId)
      trade == cancelPaperTrade(store, orderId).store.trades[tradeIndex]
  IN [trade |-> trade,
      pnl |-> cancelPnL(store.prices, store.trades[tradeIndex]),
      pnlPercentage |->
         cancelPnLPercentage(store.prices, store.trades[tradeIndex])]

\* ----------------------------------------------------- deposit / withdraw
\* depositToPaperTrading with the amount test off by one: 0 is accepted
depositToPaperTradingZeroOk(store, asset, amount, currency, t, r) ==
  IF amount < 0
  THEN [store |-> store, ok |-> FALSE, err |-> "InvalidAmount"]
  ELSE [store |-> [store EXCEPT
                     !.balances = SetBal(@, asset, Bal(@, asset) + amount),
                     !.deposits = Append(@, [id |-> <<"DEP", t, r>>,
                                             asset |-> asset, amount |-> amount,
                                             timestamp |-> t,
                                             currency |-> currency])],
        ok |-> TRUE, err |-> ""]

depositToPaperTrading(store, asset, amount, currency, t, r) ==
  IF amount <= 0
  THEN [store |-> store, ok |-> FALSE, err |-> "InvalidAmount"]
  ELSE [store |-> [store EXCEPT
                     !.balances = SetBal(@, asset, Bal(@, asset) + amount),
                     !.deposits = Append(@, [id |-> <<"DEP", t, r>>,
                                             asset |-> asset, amount |-> amount,
                                             timestamp |-> t,
                                             currency |-> currency])],
        ok |-> TRUE, err |-> ""]

\* withdrawFromPaperTrading without the balance check
withdrawFromPaperTradingUnchecked(store, asset, amount, currency, t, r) ==
  IF amount <= 0
  THEN [store |-> store, ok |-> FALSE, err |-> "InvalidAmount"]
  ELSE [store |-> [store EXCEPT
                     !.balances = SetBal(@, asset, Bal(@, asset) - amount),
                     !.withdrawals = Append(@, [id |-> <<"WD", t, r>>,
                                                asset |-> asset,
                                                amount |-> amount,
                                                timestamp |-> t,
                                                currency |-> currency])],
        ok |-> TRUE, err |-> ""]

withdrawFromPaperTrading(store, asset, amount, currency, t, r) ==
  IF amount <= 0
  THEN [store |-> store, ok |-> FALSE, err |-> "InvalidAmount"]
  ELSE IF Bal(store.balances, asset) = 0 \/ Bal(store.balances, asset) < amount
  THEN [store |-> store, ok |-> FALSE, err |-> "InsufficientBalance"]
  ELSE [store |-> [store EXCEPT
                     !.balances[asset] = @ - amount,
                     !.withdrawals = Append(@, [id |-> <<"WD", t, r>>,
                                                asset |-> asset,
                                                amount |-> amount,
                                                timestamp |-> t,
                                                currency |-> currency])],
        ok |-> TRUE, err |-> ""]

\* ---------------------------------------------------------- reset
\* initializePaperTradingAccount resetting the five default balances in
\* place: the keys that trading has added are kept
initializePaperTradingAccountInPlace(store) ==
  [store EXCEPT !.balances = [k \in DOMAIN @ |->
                                IF k \in DOMAIN initialBalances
                                THEN initialBalances[k] ELSE @[k]],
                !.trades = <<>>,
                !.tradeHistory = <<>>, !.deposits = <<>>,
                !.withdrawals = <<>>, !.totalProfitLoss = 0]

initializePaperTradingAccount(store) ==
  [store EXCEPT !.balances = initialBalances, !.trades = <<>>,
                !.tradeHistory = <<>>, !.deposits = <<>>,
                !.withdrawals = <<>>, !.totalProfitLoss = 0]

\* ------------------------------------------------------- account snapshot
\* updateActiveTradeProfitLoss: getPaperTradingAccount refreshes the PnL of
\* every trade whose status is Executed before it copies the store out
refreshPnL(prices, trade) ==
  IF trade.status = "executed" /\ PriceOf(prices, replaceUSDT(trade.symbol)) # 0
  THEN [trade EXCEPT !.currentPnL = <<cancelPnL(prices, trade)>>,
                     !.currentPnLPercentage =
                        <<cancelPnLPercentage(prices, trade)>>]
  ELSE trade

updateActiveTradeProfitLoss(store) ==
  [store EXCEPT !.trades =
     [i \in 1..Len(store.trades) |-> refreshPnL(store.prices, store.trades[i])]]

\* ---------------------------------------------------------- trade history
\* an optional Date argument is <<>> (undefined) or <<t>>
\* the filter of getPaperTradingHistory on trade.timestamp
inDateRange(trade, startDate, endDate) ==
  IF startDate # <<>> /\ endDate # <<>>
  THEN trade.timestamp >= startDate[1] /\ trade.timestamp <= endDate[1]
  ELSE IF startDate # <<>> THEN trade.timestamp >= startDate[1]
  ELSE IF endDate # <<>> THEN trade.timestamp <= endDate[1]
  ELSE TRUE

\* if (trade.currentPnL): the field is set and is not 0
truthyPnL(trade) == trade.currentPnL # <<>> /\ trade.currentPnL[1] # 0

\* the forEach of getPaperTradingHistory over records[i..], from the
\* metrics m accumulated so far
RECURSIVE historyMetrics(_, _, _)
historyMetrics(records, i, m) ==
  IF i > Len(records) THEN m
  ELSE LET trade == records[i]
           tallied == trade.status = "cancelled" /\ truthyPnL(trade)
           win == tallied /\ trade.currentPnL[1] > 0
       IN historyMetrics(records, i + 1,
            [totalProfit |-> m.totalProfit
                               + (IF win THEN trade.currentPnL[1] ELSE 0),
             totalLoss |-> m.totalLoss
                             + (IF tallied /\ ~win
                                THEN 0 - trade.currentPnL[1] ELSE 0),
             totalFees |-> m.totalFees + trade.fee.amount,
             winCount |-> m.winCount + (IF win THEN 1 ELSE 0),
             totalCount |-> m.totalCount + (IF tallied THEN 1 ELSE 0)])

\* winRate = (winCount / totalCount) * 100 is kept as the fraction
\* <<winCount * 100, totalCount>>, and as <<0, 1>> when it is 0
getPaperTradingHistory(store, startDate, endDate) ==
  LET Test(trade) == inDateRange(trade, startDate, endDate)
      filtered == SelectSeq(store.tradeHistory, Test)
      m == historyMetrics(filtered, 1,
              [totalProfit |-> 0, totalLoss |-> 0, totalFees |-> 0,
               winCount |-> 0, totalCount |-> 0])
  IN [trades |-> filtered,
      totalProfit |-> m.totalProfit,
      totalLoss |-> m.totalLoss,
      totalFees |-> m.totalFees,
      winRate |-> IF m.totalCount > 0
                  THEN <<m.winCount * 100, m.totalCount>> ELSE <<0, 1>>,
      currency |-> "USD"]

\* --------------------------------------------------------- trigger monitor
\* the closing order of executePaperStopLoss / executePaperTakeProfit: the
\* opposite side, the same quantity, at currentPrice, with no trigger levels
\* and no currentPnL field
closeTrade(kind, trade, currentPrice, t, r) ==
  [orderId |-> <<kind, t, r>>,
   symbol |-> trade.symbol,
   type |-> IF trade.type = "buy" THEN "sell" ELSE "buy",
   price |-> currentPrice, quantity |-> trade.quantity,
   status |-> "executed", timestamp |-> t,
   stopLoss |-> 0, takeProfit |-> 0,
   budget |-> trade.budget, currency |-> trade.currency,
   message |-> <<IF kind = "PAPER-SL" THEN "stop loss executed"
                 ELSE "take profit executed", currentPrice>>,
   fee |-> calculatePaperTradingFee(trade.symbol, currentPrice,
                                    trade.quantity, FALSE),
   currentPnL |-> <<>>, currentPnLPercentage |-> <<>>]

\* the shared body of executePaperStopLoss and executePaperTakeProfit, which
\* differ in the id prefix and in the two message texts only.  sl is the
\* store paired with the trigger log; j is the position of trade in trades.
executePaperClose(kind, sl, trade, j, currentPrice, t, r) ==
  LET store == sl.store
      tradeIndex == findIndex(store.trades, trade.orderId)
      closing == closeTrade(kind, trade, currentPrice, t, r)
  IN IF tradeIndex = 0 THEN sl
     ELSE [store |->
             [store EXCEPT
                !.trades = Append(
                   [@ EXCEPT ![tradeIndex] =
                      [@ EXCEPT !.status = "executed",
                                !.message =
                                  <<IF kind = "PAPER-SL"
                                    THEN "closed by stop loss"
                                    ELSE "closed by take profit",
                                    currentPrice>>]],
                   closing),
                !.balances = updatePaperTradingStore(@, closing)],
           log |-> Append(sl.log, [target |-> j,
                                   closing |-> Len(store.trades) + 1,
                                   kind |-> kind])]

executePaperStopLoss(sl, trade, j, currentPrice, t, r) ==
  executePaperClose("PAPER-SL", sl, trade, j, currentPrice, t, r)

executePaperTakeProfit(sl, trade, j, currentPrice, t, r) ==
  executePaperClose("PAPER-TP", sl, trade, j, currentPrice, t, r)

\* prices[trade.symbol] || trade.price
triggerPrice(prices, trade) ==
  IF PriceOf(prices, trade.symbol) # 0
  THEN PriceOf(prices, trade.symbol) ELSE trade.price

\* the if / else-if chain of checkStopLossAndTakeProfit: "" for no trigger
triggerKind(prices, trade) ==
  LET currentPrice == triggerPrice(prices, trade)
  IN IF trade.type = "buy" /\ currentPrice <= trade.stopLoss THEN "PAPER-SL"
     ELSE IF trade.type = "buy" /\ currentPrice >= trade.takeProfit
     THEN "PAPER-TP"
     ELSE IF trade.type = "sell" /\ currentPrice >= trade.stopLoss
     THEN "PAPER-SL"
     ELSE IF trade.type = "sell" /\ currentPrice <= trade.takeProfit
     THEN "PAPER-TP"
     ELSE ""

\* activeTrades.forEach(...): snapshot is the trades array when the pass
\* starts; the loop visits, in array order, the records of the snapshot
\* that were active then.  The result is the set of outcomes of the pass,
\* one for every way the Math.random() draws of the closing ids can fall.
RECURSIVE checkFrom(_, _, _, _)
checkFrom(sl, snapshot, j, t) ==
  IF j > Len(snapshot) THEN {sl}
  ELSE LET trade == snapshot[j]
           kind == IF isActive(trade)
                   THEN triggerKind(sl.store.prices, trade) ELSE ""
           currentPrice == triggerPrice(sl.store.prices, trade)
       IN IF kind = "PAPER-SL"
          THEN UNION {checkFrom(executePaperStopLoss(sl, trade, j,
                                                     currentPrice, t, r),
                                snapshot, j + 1, t) :
                        r \in Draws(idsOf(sl.store.trades), kind, t)}
          ELSE IF kind = "PAPER-TP"
          THEN UNION {checkFrom(executePaperTakeProfit(sl, trade, j,
                                                       currentPrice, t, r),
                                snapshot, j + 1, t) :
                        r \in Draws(idsOf(sl.store.trades), kind, t)}
          ELSE checkFrom(sl, snapshot, j + 1, t)

\* the pass going on, after the orders that were open at its start, to the
\* closing orders it has pushed meanwhile (and stopping after those)
checkStopLossAndTakeProfitLive(sl, t) ==
  UNION {checkFrom(first, first.store.trades, Len(sl.store.trades) + 1, t) :
           first \in checkFrom(sl, sl.store.trades, 1, t)}

\* the pass visiting the open orders from the last inserted to the first
RECURSIVE checkFromLast(_, _, _, _)
checkFromLast(sl, snapshot, j, t) ==
  IF j < 1 THEN {sl}
  ELSE LET trade == snapshot[j]
           kind == IF isActive(trade)
                   THEN triggerKind(sl.store.prices, trade) ELSE ""
           currentPrice == triggerPrice(sl.store.prices, trade)
       IN IF kind = ""
          THEN checkFromLast(sl, snapshot, j - 1, t)
          ELSE UNION {checkFromLast(
                         executePaperClose(kind, sl, trade, j,
                                           currentPrice, t, r),
                         snapshot, j - 1, t) :
                        r \in Draws(idsOf(sl.store.trades), kind, t)}

checkStopLossAndTakeProfitLastFirst(sl, t) ==
  checkFromLast(sl, sl.store.trades, Len(sl.store.trades), t)

checkStopLossAndTakeProfit(sl, t) ==
  checkFrom(sl, sl.store.trades, 1, t)

\* { ...paperTradingStore.prices, ...prices }
mergePrices(old, new) ==
  [k \in (DOMAIN old) \cup (DOMAIN new) |->
     IF k \in DOMAIN new THEN new[k] ELSE old[k]]

updatePaperTradingPrices(sl, prices, t) ==
  checkStopLossAndTakeProfit(
     [sl EXCEPT !.store.prices = mergePrices(@, prices)], t)

\* ---------------------------------------------------------------- actions
\* the ids a caller can pass to cancelPaperTrade: the id of a record it has
\* seen, or one that no record carries
UnknownId == <<"PAPER", 0 - 1, 0>>

CancelIds ==
  {paperTradingStore.trades[i].orderId :
     i \in 1..Len(paperTradingStore.trades)} \cup {UnknownId}

Init ==
  /\ paperTradingStore = initialStore
  /\ triggerLog = <<>>
  /\ pendingExec = 0
  /\ pendingCancel = 0
  /\ now = 0

\* the clock of Date.now()
Tick ==
  /\ now < MaxTime
  /\ now' = now + 1
  /\ UNCHANGED <<paperTradingStore, triggerLog, pendingExec, pendingCancel>>

\* executePaperTrade up to its await
InvokeExecute ==
  /\ pendingExec + pendingCancel < MaxPending
  /\ pendingExec' = pendingExec + 1
  /\ UNCHANGED <<paperTradingStore, triggerLog, pendingCancel, now>>

\* ResumeExecute in which a call whose order is rejected never settles: only
\* an accepted order lets the call return
ResumeExecuteAcceptedOnly ==
  /\ pendingExec > 0
  /\ \E order \in OrderInputs,
        r \in Draws(idsOf(paperTradingStore.trades), "PAPER", now) :
       LET res == executePaperTrade(paperTradingStore, order, now, r)
       IN /\ res.ok
          /\ Len(paperTradingStore.trades) < MaxTrades
          /\ paperTradingStore' = res.store
  /\ pendingExec' = pendingExec - 1
  /\ UNCHANGED <<triggerLog, pendingCancel, now>>

\* the rest of executePaperTrade once its timer has elapsed
ResumeExecute ==
  /\ pendingExec > 0
  /\ \E order \in OrderInputs,
        r \in Draws(idsOf(paperTradingStore.trades), "PAPER", now) :
       LET res == executePaperTrade(paperTradingStore, order, now, r)
       IN /\ res.ok => Len(paperTradingStore.trades) < MaxTrades
          /\ paperTradingStore' = res.store
  /\ pendingExec' = pendingExec - 1
  /\ UNCHANGED <<triggerLog, pendingCancel, now>>

\* cancelPaperTrade up to its await
InvokeCancel ==
  /\ pendingExec + pendingCancel < MaxPending
  /\ pendingCancel' = pendingCancel + 1
  /\ UNCHANGED <<paperTradingStore, triggerLog, pendingExec, now>>

ResumeCancel ==
  /\ pendingCancel > 0
  /\ \E orderId \in CancelIds :
       LET res == cancelPaperTrade(paperTradingStore, orderId)
       IN /\ res.ok => Len(paperTradingStore.tradeHistory) < MaxHistory
          /\ paperTradingStore' = res.store
  /\ pendingCancel' = pendingCancel - 1
  /\ UNCHANGED <<triggerLog, pendingExec, now>>

Deposit ==
  /\ \E asset \in FundAssets, amount \in AmountVals,
        currency \in FundCurrencies,
        r \in Draws(logIdsOf(paperTradingStore.deposits), "DEP", now) :
       LET res == depositToPaperTrading(paperTradingStore, asset, amount,
                                        currency, now, r)
       IN /\ res.ok => Len(paperTradingStore.deposits) < MaxLog
          /\ paperTradingStore' = res.store
  /\ UNCHANGED <<triggerLog, pendingExec, pendingCancel, now>>

Withdraw ==
  /\ \E asset \in FundAssets, amount \in AmountVals,
        currency \in FundCurrencies,
        r \in Draws(logIdsOf(paperTradingStore.withdrawals), "WD", now) :
       LET res == withdrawFromPaperTrading(paperTradingStore, asset, amount,
                                           currency, now, r)
       IN /\ res.ok => Len(paperTradingStore.withdrawals) < MaxLog
          /\ paperTradingStore' = res.store
  /\ UNCHANGED <<triggerLog, pendingExec, pendingCancel, now>>

UpdatePrices ==
  /\ \E price \in FeedPrices :
       \E after \in updatePaperTradingPrices(
                       [store |-> paperTradingStore, log |-> triggerLog],
                       [a \in {"BTC"} |-> price], now) :
         /\ Len(after.store.trades) <= MaxTrades
         /\ paperTradingStore' = after.store
         /\ triggerLog' = after.log
  /\ UNCHANGED <<pendingExec, pendingCancel, now>>

GetAccount ==
  /\ paperTradingStore' = updateActiveTradeProfitLoss(paperTradingStore)
  /\ UNCHANGED <<triggerLog, pendingExec, pendingCancel, now>>

Initialize ==
  /\ paperTradingStore' = initializePaperTradingAccount(paperTradingStore)
  /\ triggerLog' = <<>>
  /\ UNCHANGED <<pendingExec, pendingCancel, now>>

\* the order lifecycle: execution, cancellation, price-driven closing, reset
Next ==
  \/ InvokeExecute
  \/ ResumeExecute
  \/ InvokeCancel
  \/ ResumeCancel
  \/ UpdatePrices
  \/ Initialize

\* Spec: every call happens within one millisecond of Date.now(), where an
\* id can repeat
Spec == Init /\ [][Next]_vars

\* the order lifecycle at the start-up prices, with funding and defunding
FundNext ==
  \/ InvokeExecute
  \/ ResumeExecute
  \/ InvokeCancel
  \/ ResumeCancel
  \/ Deposit
  \/ Withdraw
  \/ Initialize

FundSpec == Init /\ [][FundNext]_vars

\* the order lifecycle with the account snapshot, which refreshes the PnL of
\* the executed trades
SnapshotNext == Next \/ GetAccount

SnapshotSpec == Init /\ [][SnapshotNext]_vars

\* the order lifecycle with the clock advancing between calls
TimedNext == Next \/ Tick

TimedSpec == Init /\ [][TimedNext]_vars

\* the BTC price at which an order bought at 8000 with its fee of 8 in USDT
\* is cancelled with a realized PnL of exactly 0
BreakEvenPrices == {8008}

\* updatePaperTradingPrices with the break-even price
UpdatePricesToBreakEven ==
  /\ \E price \in BreakEvenPrices :
       \E after \in updatePaperTradingPrices(
                       [store |-> paperTradingStore, log |-> triggerLog],
                       [a \in {"BTC"} |-> price], now) :
         /\ Len(after.store.trades) <= MaxTrades
         /\ paperTradingStore' = after.store
         /\ triggerLog' = after.log
  /\ UNCHANGED <<pendingExec, pendingCancel, now>>

\* the order lifecycle with the clock advancing and with prices that make a
\* realized PnL positive, negative and exactly 0
HistoryNext == Next \/ Tick \/ UpdatePricesToBreakEven

HistorySpec == Init /\ [][HistoryNext]_vars

\* order execution on an account that is funded and defunded: the caller's
\* orders going through validation and updatePaperTradingStore, without
\* cancellation and without price updates
ExecuteNext ==
  \/ InvokeExecute
  \/ ResumeExecute
  \/ Deposit
  \/ Withdraw
  \/ Initialize

ExecuteSpec == Init /\ [][ExecuteNext]_vars

\* the caller-invoked order lifecycle at the start-up prices: execution and
\* cancellation between resets
OrderNext ==
  \/ InvokeExecute
  \/ ResumeExecute
  \/ InvokeCancel
  \/ ResumeCancel
  \/ Initialize

OrderSpec == Init /\ [][OrderNext]_vars

\* the order lifecycle under the scheduling of the event loop: a timer that
\* has elapsed has its continuation run, so a suspended executePaperTrade or
\* cancelPaperTrade is eventually resumed
LiveSpec ==
  /\ Init
  /\ [][Next]_vars
  /\ WF_vars(ResumeExecute)
  /\ WF_vars(ResumeCancel)

\* order execution and the Trigger Monitor: orders are opened, price
\* updates close them and account snapshots refresh their PnL, between
\* resets, without cancellation
TriggerNext ==
  \/ InvokeExecute
  \/ ResumeExecute
  \/ UpdatePrices
  \/ GetAccount
  \/ Initialize

TriggerSpec == Init /\ [][TriggerNext]_vars

\* ------------------------------------------------------------ shorthands
trades == paperTradingStore.trades

balances == paperTradingStore.balances

tradeHistory == paperTradingStore.tradeHistory

\* the keys of either balance map
Keys(b1, b2) == (DOMAIN b1) \cup (DOMAIN b2)

\* two balance maps hold the same amounts, an absent key counting as 0
SameBalances(b1, b2) == \A k \in Keys(b1, b2) : Bal(b1, k) = Bal(b2, k)

\* ---------------------------------------------------------------- claims

\* C1: once cancelOrder(id) has succeeded (the trade history holds the
\* record it cancelled), every later cancelOrder(id) fails and leaves every
\* balance as it was.
C1_DoubleCancelFails ==
  \A h \in 1..Len(tradeHistory) :
     LET res == cancelPaperTrade(paperTradingStore, tradeHistory[h].orderId)
     IN ~res.ok /\ res.store.balances = balances

\* C2: a cancel and a price-driven close of the same order never both take
\* effect: no order that the Trigger Monitor has closed is also
\* cancel-reversed (status Cancelled).
C2_NeverClosedAndCancelled ==
  \A k \in 1..Len(triggerLog) :
     trades[triggerLog[k].target].status # "cancelled"

\* C3: after a price update has closed an open Buy order by stop-loss or
\* take-profit, that order is no longer in the active set and the trade
\* history holds a record for it.
C3_TriggerCloseEndsPosition ==
  \A k \in 1..Len(triggerLog) :
     LET trade == trades[triggerLog[k].target]
     IN trade.type = "buy" =>
          /\ ~isActive(trade)
          /\ \E h \in 1..Len(tradeHistory) :
                tradeHistory[h].orderId = trade.orderId

\* the trigger logs that the next price update can leave
LogsAfterUpdate ==
  {after.log :
     after \in UNION {updatePaperTradingPrices(
                         [store |-> paperTradingStore, log |-> triggerLog],
                         [a \in {"BTC"} |-> price], now) :
                       price \in FeedPrices}}

\* C4: at most one closing execution is ever synthesized for a given order:
\* no two closings so far have the same original order, and neither have
\* two closings after one more price update, whatever its price.
C4_ClosedAtMostOnce ==
  \A log \in {triggerLog} \cup LogsAfterUpdate :
     \A a, b \in 1..Len(log) : a # b => log[a].target # log[b].target

\* C5: every asset balance is >= 0 in every reachable state.
C5_NonNegativeBalances ==
  \A k \in DOMAIN balances : balances[k] >= 0

\* a step in which a suspended executePaperTrade resumes and returns a
\* record: the record is the one it has pushed onto trades
ExecuteReturned ==
  /\ pendingExec' = pendingExec - 1
  /\ Len(trades') = Len(trades) + 1

\* the record a step has pushed last
Pushed == trades'[Len(trades')]

\* C6: the balance check and the balance update of one executeOrder run
\* together, on the same balance: a succeeding Buy of cost c finds USDT >= c
\* and takes c out of USDT; a succeeding Sell of q finds the base balance
\* >= q and takes q out of the base balance; so orders that resume one after
\* another never spend, between them, more than was available.
C6_NoOverSpending ==
  [][ExecuteReturned =>
       LET cost == Pushed.price * Pushed.quantity
           base == replaceUSDT(Pushed.symbol)
       IN IF Pushed.type = "buy"
          THEN /\ cost <= balances["USDT"]
               /\ balances'["USDT"] <= balances["USDT"] - cost
          ELSE /\ Pushed.quantity <= Bal(balances, base)
               /\ Bal(balances', base) <= Bal(balances, base) - Pushed.quantity
     ]_vars

\* no execution, cancellation, deposit or withdrawal record is appended
NoRecordAppended ==
  /\ Len(trades') = Len(trades)
  /\ Len(tradeHistory') = Len(tradeHistory)
  /\ Len(paperTradingStore'.deposits) = Len(paperTradingStore.deposits)
  /\ Len(paperTradingStore'.withdrawals) = Len(paperTradingStore.withdrawals)

\* C7: a call of executeOrder, cancelOrder, deposit or withdraw that fails
\* (every successful one appends a record) leaves the whole ledger -
\* balances, prices, trades, history, deposit and withdrawal logs,
\* totalProfitLoss - as it was.
C7_RejectionChangesNothing ==
  [][NoRecordAppended => paperTradingStore' = paperTradingStore]_vars

\* C7 witness: an order has been executed and, in this state, a Buy is
\* rejected for lack of USDT, a cancel for its unknown id, a withdrawal for
\* lack of funds and a deposit for its amount
C7_Witness ==
  /\ Len(trades) = 1
  /\ ~executePaperTrade(paperTradingStore,
                        Order("BTC", "buy", <<0, 0>>, FALSE, "USD"), now, 0).ok
  /\ ~cancelPaperTrade(paperTradingStore, UnknownId).ok
  /\ ~withdrawFromPaperTrading(paperTradingStore, "ETH", 1, "USD", now, 0).ok
  /\ ~depositToPaperTrading(paperTradingStore, "BTC", 0, "USD", now, 0).ok

\* C8: executeOrder rejects an order exactly when its symbol (USDT suffix
\* removed) has no price, or it is a Buy costing more than the USDT balance,
\* or it is a Sell of more than the base balance; it fails with the
\* matching error and succeeds in every other case.
C8_AcceptanceCondition ==
  \A o \in ProbeOrders :
     LET res == executePaperTrade(paperTradingStore, o, now, 0)
         base == replaceUSDT(o.symbol)
         unknown == base \notin DOMAIN paperTradingStore.prices
         short == \/ o.type = "buy" /\ o.price * o.quantity > balances["USDT"]
                  \/ o.type = "sell" /\ Bal(balances, base) < o.quantity
     IN /\ res.ok <=> ~(unknown \/ short)
        /\ unknown => res.err = "InvalidSymbol"
        /\ (~unknown /\ short) => res.err = "InsufficientBalance"

\* C8 witness: after an executed Buy, USDT no longer covers a Buy at 8000
\* and the base balance covers a Sell
C8_Witness ==
  /\ Len(trades) >= 1
  /\ balances["USDT"] < 8000
  /\ balances["USDT"] >= 0
  /\ Bal(balances, "BTC") >= 1

\* the change executeOrder is to make to the balance of asset k
OrderDelta(trade, k) ==
  LET cost == trade.price * trade.quantity
  IN (IF k = "USDT" THEN (IF trade.type = "buy" THEN 0 - cost ELSE cost)
      ELSE 0)
     + (IF k = replaceUSDT(trade.symbol)
        THEN (IF trade.type = "buy" THEN trade.quantity
              ELSE 0 - trade.quantity)
        ELSE 0)
     - (IF k = trade.fee.asset THEN trade.fee.amount ELSE 0)

\* C9: a successful executeOrder moves price*quantity out of (Buy) or into
\* (Sell) USDT, quantity into (Buy) or out of (Sell) the base asset, and
\* fee.amount = price*quantity*effectiveRate out of the fee asset; it changes
\* no other balance and adds exactly one record, Executed, currentPnL = 0.
C9_EffectOfExecute ==
  [][ExecuteReturned =>
       /\ trades' = Append(trades, Pushed)
       /\ Pushed.status = "executed"
       /\ Pushed.currentPnL = <<0>>
       /\ Pushed.fee.amount * RateScale
            = Pushed.price * Pushed.quantity * Pushed.fee.rate
       /\ \A k \in Keys(balances, balances') :
             Bal(balances', k) = Bal(balances, k) + OrderDelta(Pushed, k)
     ]_vars

\* C10 (i): from a reset account, executeOrder followed by cancelOrder of
\* that order, with nothing else changing balances, ends at the start
\* balances, whatever the price is by then
C10_FromReset ==
  (/\ Len(trades) = 1
   /\ trades[1].status = "cancelled"
   /\ Len(tradeHistory) = 1
   /\ triggerLog = <<>>)
  => SameBalances(balances, initialBalances)

\* the draw that makes a new id of this prefix differ from every id so far
FreshDraw(records, prefix, t) ==
  Cardinality({i \in 1..Len(records) :
                 records[i][1] = prefix /\ records[i][2] = t})

\* the balances after cancelOrder of the order with this id, once the BTC
\* price has become price without closing anything
CancelledAt(store, orderId, price) ==
  cancelPaperTrade(
     [store EXCEPT !.prices = mergePrices(@, [a \in {"BTC"} |-> price])],
     orderId).store.balances

\* C10 (ii): from every reachable state and for every order, Buy or Sell,
\* fee in USDT or in BNB: if executeOrder accepts it and cancelOrder is then
\* given its id, the balances are those before the executeOrder, whatever
\* BTC price has been fed in between
C10_FromAnyState ==
  LET r == FreshDraw(idsOf(trades), "PAPER", now)
  IN \A o \in ProbeOrders :
        LET executed == executePaperTrade(paperTradingStore, o, now, r)
        IN executed.ok =>
             \A price \in FeedPrices :
                SameBalances(
                   CancelledAt(executed.store, <<"PAPER", now, r>>, price),
                   balances)

\* C10: cancellation is an exact undo of the execution's balance changes.
C10_CancelIsExactUndo == C10_FromReset /\ C10_FromAnyState

\* C10 witness: an order was executed, the price moved, the order was
\* cancelled, and the balances are the start balances again
C10_Witness ==
  /\ Len(trades) = 1
  /\ trades[1].status = "cancelled"
  /\ Len(tradeHistory) = 1
  /\ triggerLog = <<>>
  /\ paperTradingStore.prices["BTC"] # StartBTCPrice
  /\ SameBalances(balances, initialBalances)

\* a step in which a suspended cancelPaperTrade resumes and succeeds: only
\* cancelPaperTrade pushes onto tradeHistory
CancelSucceeded == Len(tradeHistory') = Len(tradeHistory) + 1

\* the record a successful cancelPaperTrade has pushed onto tradeHistory
Recorded == tradeHistory'[Len(tradeHistory')]

\* C11: a successful cancelOrder(id) of an open order sets that order's
\* status to Cancelled, so that it leaves the active set, appends exactly
\* one record for it to the trade history and touches no other trade record.
C11_CancelLifecycle ==
  [][CancelSucceeded =>
       LET i == findIndex(trades, Recorded.orderId)
       IN (i # 0 /\ isActive(trades[i])) =>
            /\ Len(trades') = Len(trades)
            /\ trades'[i].status = "cancelled"
            /\ ~isActive(trades'[i])
            /\ trades'[i] = Recorded
            /\ Recorded.orderId = trades[i].orderId
            /\ \A k \in 1..Len(trades) : k # i => trades'[k] = trades[k]
            /\ tradeHistory' = Append(tradeHistory, Recorded)
            /\ Len(getActivePaperTrades(trades'))
                 = Len(getActivePaperTrades(trades)) - 1
     ]_vars

\* C11 witness: after execute and cancel of a single order there is no
\* active trade and the history holds one record, the cancelled order
C11_Witness ==
  /\ Len(trades) = 1
  /\ trades[1].status = "cancelled"
  /\ Len(getActivePaperTrades(trades)) = 0
  /\ Len(tradeHistory) = 1
  /\ tradeHistory[1] = trades[1]

\* the outcomes of the next price update, over every BTC price fed
AfterUpdate ==
  UNION {updatePaperTradingPrices(
            [store |-> paperTradingStore, log |-> triggerLog],
            [a \in {"BTC"} |-> price], now) :
          price \in FeedPrices}

\* the positions in trades of the orders that a price update closes, after
\* being the outcome of that update
ClosedBy(after) ==
  {after.log[k].target : k \in (Len(triggerLog) + 1)..Len(after.log)}

\* the breach condition of the specification: a level of 0 is no level
Breach(trade, currentPrice) ==
  IF trade.type = "buy"
  THEN \/ trade.stopLoss > 0 /\ currentPrice <= trade.stopLoss
       \/ trade.takeProfit > 0 /\ currentPrice >= trade.takeProfit
  ELSE \/ trade.stopLoss > 0 /\ currentPrice >= trade.stopLoss
       \/ trade.takeProfit > 0 /\ currentPrice <= trade.takeProfit

\* C12: on a price update an open order is closed exactly when the price of
\* its asset breaches one of its levels in the order's direction, a level
\* counting only when it is > 0.
C12_DirectionalBreach ==
  \A after \in AfterUpdate :
     \A j \in 1..Len(trades) :
        isActive(trades[j]) =>
          (j \in ClosedBy(after)
             <=> Breach(trades[j],
                        PriceOf(after.store.prices,
                                replaceUSDT(trades[j].symbol))))

\* C13: a level of 0 triggers nothing: no price update closes an order by
\* stop loss when its stopLoss is 0, nor by take profit when its takeProfit
\* is 0; so an order with both levels 0, as every closing order of the
\* Trigger Monitor is, is never closed by a price update.
C13_ZeroLevelNoTrigger ==
  \A after \in AfterUpdate :
     \A k \in (Len(triggerLog) + 1)..Len(after.log) :
        LET trade == trades[after.log[k].target]
        IN /\ after.log[k].kind = "PAPER-SL" => trade.stopLoss > 0
           /\ after.log[k].kind = "PAPER-TP" => trade.takeProfit > 0

\* the order that is to close trade at currentPrice: the opposite side, the
\* same quantity, the exit fee at the base rate
ClosingOrder(trade, currentPrice) ==
  [symbol |-> trade.symbol,
   type |-> IF trade.type = "buy" THEN "sell" ELSE "buy",
   price |-> currentPrice, quantity |-> trade.quantity,
   fee |-> [amount |-> (currentPrice * trade.quantity * BaseFeeRate)
                          \div RateScale,
            asset |-> "USDT"]]

\* the sum, over the closings log[k..], of the change that the closing
\* order of each is to make to the balance of asset
RECURSIVE CloseDelta(_, _, _, _)
CloseDelta(log, k, prices, asset) ==
  IF k > Len(log) THEN 0
  ELSE LET trade == trades[log[k].target]
       IN OrderDelta(ClosingOrder(trade,
                        PriceOf(prices, replaceUSDT(trade.symbol))), asset)
          + CloseDelta(log, k + 1, prices, asset)

\* C14: a price update changes the balances exactly by what an executed
\* opposite order of the same quantity at the current price of the asset,
\* exit fee included, changes them, for each order it closes.
C14_TriggerCloseBalances ==
  \A after \in AfterUpdate :
     \A asset \in Keys(balances, after.store.balances) :
        Bal(after.store.balances, asset)
          = Bal(balances, asset)
            + CloseDelta(after.log, Len(triggerLog) + 1,
                         after.store.prices, asset)

\* no open order breaches a level at these prices
NoBreach(prices) ==
  \A j \in 1..Len(trades) :
     isActive(trades[j]) =>
       ~Breach(trades[j], PriceOf(prices, replaceUSDT(trades[j].symbol)))

\* C15: a price update after which no open order breaches a level changes
\* the price map only - the entries given are set, the other prices kept -
\* and leaves balances, trade records, history, deposit and withdrawal logs
\* and totalProfitLoss as they were.
C15_NoBreachNoMutation ==
  \A after \in AfterUpdate :
     NoBreach(after.store.prices) =>
       /\ after.store = [paperTradingStore EXCEPT
                           !.prices = after.store.prices]
       /\ DOMAIN after.store.prices = DOMAIN paperTradingStore.prices
       /\ \A a \in DOMAIN after.store.prices :
             a # "BTC" => after.store.prices[a] = paperTradingStore.prices[a]

\* the assets and amounts that deposit and withdraw are probed with: an
\* asset held, one never held, amounts below, at and above 0
ProbeAssets == {"BTC", "DOGE"}

ProbeAmounts == {0 - 1, 0, 1, 2}

\* C16: deposit(asset, amount) with amount > 0 adds amount to
\* balances[asset], appends one DepositRecord and changes nothing else - no
\* other balance, no trade, no price, neither the trade history nor the
\* withdrawal log; with amount <= 0 it fails with InvalidAmount and changes
\* nothing.
C16_DepositEffectAndFrame ==
  \A asset \in ProbeAssets, amount \in ProbeAmounts,
     r \in Draws(logIdsOf(paperTradingStore.deposits), "DEP", now) :
     LET res == depositToPaperTrading(paperTradingStore, asset, amount,
                                      "USD", now, r)
         record == res.store.deposits[Len(res.store.deposits)]
     IN IF amount > 0
        THEN /\ res.ok
             /\ \A k \in Keys(balances, res.store.balances) :
                   Bal(res.store.balances, k)
                     = Bal(balances, k) + (IF k = asset THEN amount ELSE 0)
             /\ res.store.deposits
                  = Append(paperTradingStore.deposits, record)
             /\ record.asset = asset /\ record.amount = amount
             /\ [res.store EXCEPT !.balances = balances,
                                  !.deposits = paperTradingStore.deposits]
                  = paperTradingStore
        ELSE /\ ~res.ok
             /\ res.err = "InvalidAmount"
             /\ res.store = paperTradingStore

\* C16 witness: one deposit of 1 BTC into a reset account has been made
C16_Witness ==
  /\ Len(paperTradingStore.deposits) = 1
  /\ paperTradingStore.deposits[1].asset = "BTC"
  /\ paperTradingStore.deposits[1].amount = 1
  /\ trades = <<>>
  /\ paperTradingStore.withdrawals = <<>>
  /\ SameBalances(balances, SetBal(initialBalances, "BTC", 1))

\* C17: withdraw(asset, amount) succeeds exactly when amount > 0 and
\* balances[asset] >= amount; it then takes amount out of balances[asset],
\* which stays >= 0, and appends one WithdrawalRecord; when amount exceeds
\* the balance it fails with InsufficientBalance and no balance changes.
C17_WithdrawContract ==
  \A asset \in ProbeAssets, amount \in ProbeAmounts,
     r \in Draws(logIdsOf(paperTradingStore.withdrawals), "WD", now) :
     LET res == withdrawFromPaperTrading(paperTradingStore, asset, amount,
                                         "USD", now, r)
         record == res.store.withdrawals[Len(res.store.withdrawals)]
     IN /\ res.ok <=> (amount > 0 /\ Bal(balances, asset) >= amount)
        /\ res.ok =>
             /\ \A k \in Keys(balances, res.store.balances) :
                   Bal(res.store.balances, k)
                     = Bal(balances, k) - (IF k = asset THEN amount ELSE 0)
             /\ Bal(res.store.balances, asset) >= 0
             /\ res.store.withdrawals
                  = Append(paperTradingStore.withdrawals, record)
             /\ record.asset = asset /\ record.amount = amount
        /\ (amount > 0 /\ Bal(balances, asset) < amount) =>
             /\ res.err = "InsufficientBalance"
             /\ res.store = paperTradingStore
        /\ amount <= 0 => res.store = paperTradingStore

\* C17 witness: a deposit of 1 BTC has been withdrawn again, and a further
\* withdrawal of 1 BTC exceeds the balance
C17_Witness ==
  /\ Len(paperTradingStore.deposits) = 1
  /\ Len(paperTradingStore.withdrawals) = 1
  /\ paperTradingStore.withdrawals[1].asset = "BTC"
  /\ paperTradingStore.withdrawals[1].amount = 1
  /\ Bal(balances, "BTC") = 0

\* C18: from every reachable state, initializeAccount() leaves the balances
\* USD = 10000, USDT = 10000, BTC = ETH = BNB = 0 and no other key, no
\* active trade, an empty trade history, empty deposit and withdrawal logs
\* and totalProfitLoss = 0.
C18_Reset ==
  LET reset == initializePaperTradingAccount(paperTradingStore)
  IN /\ DOMAIN reset.balances = {"USD", "USDT", "BTC", "ETH", "BNB"}
     /\ reset.balances["USD"] = StartUSD
     /\ reset.balances["USDT"] = StartUSDT
     /\ reset.balances["BTC"] = 0
     /\ reset.balances["ETH"] = 0
     /\ reset.balances["BNB"] = 0
     /\ getActivePaperTrades(reset.trades) = <<>>
     /\ reset.tradeHistory = <<>>
     /\ reset.deposits = <<>>
     /\ reset.withdrawals = <<>>
     /\ reset.totalProfitLoss = 0

\* C18 witness: a state that differs from the reset account in all it can -
\* a balance key added by a pair-symbol order, a negative balance, an active
\* trade, a history record, a deposit record, a realized profit or loss
C18_Witness ==
  /\ "BTCUSDT" \in DOMAIN balances
  /\ \E k \in DOMAIN balances : balances[k] < 0
  /\ getActivePaperTrades(trades) # <<>>
  /\ tradeHistory # <<>>
  /\ paperTradingStore.deposits # <<>>
  /\ paperTradingStore.totalProfitLoss # 0
  /\ initializePaperTradingAccount(paperTradingStore).balances = initialBalances

\* the date arguments of getHistory: absent, or a time of the clock
DateArgs == {<<>>} \cup {<<t>> : t \in 0..MaxTime}

\* the ids of the orders that are still open
ActiveIds ==
  {paperTradingStore.trades[i].orderId :
     i \in {j \in 1..Len(paperTradingStore.trades) :
               isActive(paperTradingStore.trades[j])}}

\* the stores whose history getHistory is asked for: the store as it is,
\* and as it is after cancelOrder of one more open order
HistoryStores ==
  {paperTradingStore}
    \cup {cancelPaperTrade(paperTradingStore, orderId).store :
            orderId \in ActiveIds}

\* the sum over records[i..] of the realized PnLs that are > 0 (wins), or of
\* the absolute values of the others, of the Cancelled records that carry a
\* realized PnL
RECURSIVE TallySum(_, _, _)
TallySum(records, i, wins) ==
  IF i > Len(records) THEN 0
  ELSE LET trade == records[i]
           counted == trade.status = "cancelled" /\ trade.currentPnL # <<>>
           pnl == IF counted THEN trade.currentPnL[1] ELSE 0
       IN (IF counted /\ wins /\ pnl > 0 THEN pnl
           ELSE IF counted /\ ~wins /\ pnl <= 0 THEN 0 - pnl
           ELSE 0)
          + TallySum(records, i + 1, wins)

\* C19: for every trade history and date range, getHistory returns the
\* records of the range; it counts the Cancelled ones that carry a realized
\* PnL, one of exactly 0 included; totalProfit is the sum of the positive
\* PnLs, totalLoss the sum of the absolute values of the others, and
\* winRate is 100 * wins / counted, or 0 when nothing is counted, hence
\* between 0 and 100.
C19_HistoryTally ==
  \A store \in HistoryStores, startDate \in DateArgs, endDate \in DateArgs :
     LET h == getPaperTradingHistory(store, startDate, endDate)
         Test(trade) ==
           /\ startDate # <<>> => trade.timestamp >= startDate[1]
           /\ endDate # <<>> => trade.timestamp <= endDate[1]
         counted == {i \in 1..Len(h.trades) :
                       /\ h.trades[i].status = "cancelled"
                       /\ h.trades[i].currentPnL # <<>>}
         wins == {i \in counted : h.trades[i].currentPnL[1] > 0}
     IN /\ h.trades = SelectSeq(store.tradeHistory, Test)
        /\ h.totalProfit = TallySum(h.trades, 1, TRUE)
        /\ h.totalLoss = TallySum(h.trades, 1, FALSE)
        /\ h.winRate[2] > 0
        /\ h.winRate[1] * Cardinality(counted)
             = 100 * Cardinality(wins) * h.winRate[2]
        /\ counted = {} => h.winRate[1] = 0
        /\ 0 <= h.winRate[1] /\ h.winRate[1] <= 100 * h.winRate[2]

\* C20: cancelOrder of an order whose base asset has a price records and
\* returns pnl = (currentPrice - entryPrice) * quantity for a Buy and
\* (entryPrice - currentPrice) * quantity for a Sell, minus the fee amount
\* recorded at entry, currentPrice being the price-map entry of the base
\* asset; no closing fee is subtracted, and the returned pnl and
\* pnlPercentage equal the currentPnL and currentPnLPercentage of the record
\* left in the open set and appended to the history.
C20_CancelPnL ==
  \A orderId \in CancelIds :
     LET store == paperTradingStore
         r == cancelPaperTrade(store, orderId)
         tradeIndex == findIndex(store.trades, orderId)
         entry == store.trades[tradeIndex]
         currentPrice == PriceOf(store.prices, replaceUSDT(entry.symbol))
         ret == cancelPaperTradeReturn(store, orderId)
         recorded == r.store.tradeHistory[Len(r.store.tradeHistory)]
     IN (r.ok /\ currentPrice > 0) =>
          /\ entry.type = "buy" =>
               ret.pnl = (currentPrice - entry.price) * entry.quantity
                           - entry.fee.amount
          /\ entry.type = "sell" =>
               ret.pnl = (entry.price - currentPrice) * entry.quantity
                           - entry.fee.amount
          /\ recorded.orderId = orderId
          /\ recorded.currentPnL = <<ret.pnl>>
          /\ recorded.currentPnLPercentage = <<ret.pnlPercentage>>
          /\ r.store.trades[tradeIndex] = recorded
          /\ ret.trade = recorded

\* an open Sell whose asset has moved away from the entry price, beside the
\* history record of a cancelled Buy with a realized gain
C20_Witness ==
  /\ \E i \in 1..Len(trades) :
        /\ isActive(trades[i]) /\ trades[i].type = "sell"
        /\ PriceOf(paperTradingStore.prices, replaceUSDT(trades[i].symbol))
             \notin {0, trades[i].price}
  /\ \E k \in 1..Len(tradeHistory) :
        /\ tradeHistory[k].status = "cancelled"
        /\ tradeHistory[k].type = "buy"
        /\ tradeHistory[k].currentPnL # <<>>
        /\ tradeHistory[k].currentPnL[1] > 0

\* the prices and quantities the fee is computed for: 0 and the values at
\* which both fees are whole numbers
FeePrices == {0, 4000, 8000, 12000}

FeeQuantities == {0, 1, 2, 5}

\* C21: for every symbol, price >= 0 and quantity >= 0, the fee amount with
\* the fee paid in BNB (rate 0.001 * 0.75) is never larger than the fee
\* amount of the same order with the fee paid in USDT (rate 0.001).
C21_FeeMonotonicity ==
  /\ \A symbol \in SymbolVals, price \in FeePrices, quantity \in FeeQuantities :
        LET inBnb == calculatePaperTradingFee(symbol, price, quantity, TRUE)
            inUsdt == calculatePaperTradingFee(symbol, price, quantity, FALSE)
        IN /\ inBnb.amount <= inUsdt.amount
           /\ inBnb.rate * 100 = BaseFeeRate * BnbDiscountPct
           /\ inUsdt.rate = BaseFeeRate
           /\ inBnb.asset = "BNB" /\ inUsdt.asset = "USDT"
           /\ calculateTradingFees(price * quantity, BaseFeeRate, TRUE)
                <= calculateTradingFees(price * quantity, BaseFeeRate, FALSE)
           /\ calculateTradingFees(price * quantity, BaseFeeRate, TRUE)
                = inBnb.amount
  /\ \A i, j \in 1..Len(trades) :
        (/\ trades[i].fee.asset = "BNB" /\ trades[j].fee.asset = "USDT"
         /\ trades[i].symbol = trades[j].symbol
         /\ trades[i].price = trades[j].price
         /\ trades[i].quantity = trades[j].quantity)
        => trades[i].fee.amount <= trades[j].fee.amount

\* two executed orders of the same symbol, price and quantity, one with its
\* fee in BNB and one with its fee in USDT, the first fee the smaller
C21_Witness ==
  \E i, j \in 1..Len(trades) :
     /\ trades[i].fee.asset = "BNB" /\ trades[j].fee.asset = "USDT"
     /\ trades[i].symbol = trades[j].symbol
     /\ trades[i].price = trades[j].price
     /\ trades[i].quantity = trades[j].quantity
     /\ trades[i].fee.amount < trades[j].fee.amount

\* the quantities of the pairs
PairQuantities == {1, 2}

\* an execution record of the given side with a fee amount of zero
FreeTrade(symbol, type, price, quantity, feeAsset) ==
  [symbol |-> symbol, type |-> type, price |-> price, quantity |-> quantity,
   fee |-> [amount |-> 0, asset |-> feeAsset, rate |-> 0]]

\* the balances after a Buy/Sell pair of one symbol, quantity and price with
\* zero fees has been applied, the side named first going first
AfterPair(b, symbol, price, quantity, first, feeAsset) ==
  LET second == IF first = "buy" THEN "sell" ELSE "buy"
  IN updatePaperTradingStore(
        updatePaperTradingStore(
           b, FreeTrade(symbol, first, price, quantity, feeAsset)),
        FreeTrade(symbol, second, price, quantity, feeAsset))

\* C22: over any sequence of executed Buy/Sell pairs (a Buy and a Sell of
\* the same symbol and quantity at the same constant price) with zero fees,
\* the net change of the USDT balance is zero, and so is the net change of
\* the base-asset balance (and of every other balance).
C22_BalanceConservation ==
  \A price \in PriceVals, s1 \in SymbolVals, q1 \in PairQuantities,
     f1 \in TypeVals :
     \A one \in {AfterPair(balances, s1, price, q1, f1, "USDT")} :
        /\ one["USDT"] = balances["USDT"]
        /\ Bal(one, s1) = Bal(balances, s1)
        /\ SameBalances(one, balances)
        /\ \A s2 \in SymbolVals, q2 \in PairQuantities, f2 \in TypeVals :
              \A two \in {AfterPair(one, s2, price, q2, f2, "BNB")} :
                 /\ two["USDT"] = balances["USDT"]
                 /\ Bal(two, s1) = Bal(balances, s1)
                 /\ Bal(two, s2) = Bal(balances, s2)
                 /\ SameBalances(two, balances)

\* a Buy and a Sell of the same symbol, quantity and price have both been
\* executed: the base balance is back at 0 and USDT is short of the start
\* balance by the USDT fee only
C22_Witness ==
  /\ Len(trades) = 2
  /\ trades[1].type = "buy" /\ trades[2].type = "sell"
  /\ trades[1].status = "executed" /\ trades[2].status = "executed"
  /\ trades[1].symbol = trades[2].symbol
  /\ trades[1].price = trades[2].price
  /\ trades[1].quantity = trades[2].quantity
  /\ Bal(balances, trades[1].symbol) = 0
  /\ balances["USDT"] = StartUSDT - trades[1].fee.amount

\* C23: in every reachable state no two execution records in the store -
\* orders created by executeOrder and closing orders synthesized by the
\* Trigger Monitor - share the same orderId, so cancelOrder(id) addresses
\* exactly the one record that carries id.
C23_UniqueOrderIds ==
  /\ \A i, j \in 1..Len(trades) :
        i # j => trades[i].orderId # trades[j].orderId
  /\ \A i \in 1..Len(trades) : findIndex(trades, trades[i].orderId) = i

OtherCurrency(currency) == IF currency = "USD" THEN "INR" ELSE "USD"

\* a list of records with every currency attribute mapped by F
MapCurrency(records, F(_)) ==
  [i \in 1..Len(records) |->
     [records[i] EXCEPT !.currency = F(records[i].currency)]]

\* the store of the other run: every currency attribute is the other one
SwapCurrency(store) ==
  [store EXCEPT !.trades = MapCurrency(@, OtherCurrency),
                !.tradeHistory = MapCurrency(@, OtherCurrency),
                !.deposits = MapCurrency(@, OtherCurrency),
                !.withdrawals = MapCurrency(@, OtherCurrency)]

ToUSD(currency) == "USD"

\* what is left of a store when the currency attributes are disregarded:
\* balances, prices, the records with their statuses, fees and PnL, the
\* logs, totalProfitLoss
Ledger(store) ==
  [store EXCEPT !.trades = MapCurrency(@, ToUSD),
                !.tradeHistory = MapCurrency(@, ToUSD),
                !.deposits = MapCurrency(@, ToUSD),
                !.withdrawals = MapCurrency(@, ToUSD)]

\* the stores the calls are applied to: the store as it is, and as it is
\* after a deposit
CurrencyStores ==
  {paperTradingStore,
   depositToPaperTrading(paperTradingStore, "BTC", 1, "INR", now, 0).store}

\* C24: two runs that apply the same calls and differ only in the currency
\* attribute passed with orders, deposits and withdrawals stay equal in
\* balances, prices, statuses, fees and realized PnL: from two stores that
\* differ in currency attributes only, the same executeOrder, cancelOrder,
\* pushPriceUpdate, deposit or withdraw, given different currencies, has the
\* same outcome and leaves stores that differ in currency attributes only.
C24_CurrencyNonInterference ==
  \A store \in CurrencyStores :
  \A other \in {SwapCurrency(store)} :
     /\ Ledger(store) = Ledger(other)
     /\ \A order \in OrderInputs :
           \A a \in {executePaperTrade(store, order, now, 0)},
              b \in {executePaperTrade(
                        other,
                        [order EXCEPT !.currency = OtherCurrency(@)],
                        now, 0)} :
              /\ a.ok = b.ok /\ a.err = b.err
              /\ Ledger(a.store) = Ledger(b.store)
     /\ \A orderId \in {store.trades[i].orderId : i \in 1..Len(store.trades)}
                        \cup {UnknownId} :
           \A a \in {cancelPaperTrade(store, orderId)},
              b \in {cancelPaperTrade(other, orderId)} :
              /\ a.ok = b.ok /\ a.err = b.err
              /\ Ledger(a.store) = Ledger(b.store)
     /\ \A price \in FeedPrices :
           {Ledger(a.store) :
              a \in updatePaperTradingPrices(
                       [store |-> store, log |-> <<>>],
                       [x \in {"BTC"} |-> price], now)}
           = {Ledger(b.store) :
                b \in updatePaperTradingPrices(
                         [store |-> other, log |-> <<>>],
                         [x \in {"BTC"} |-> price], now)}
     /\ \A asset \in FundAssets, amount \in AmountVals,
           currency \in CurrencyVals :
           /\ \A a \in {depositToPaperTrading(store, asset, amount,
                                              currency, now, 0)},
                 b \in {depositToPaperTrading(other, asset, amount,
                                              OtherCurrency(currency),
                                              now, 0)} :
                 /\ a.ok = b.ok /\ a.err = b.err
                 /\ Ledger(a.store) = Ledger(b.store)
           /\ \A a \in {withdrawFromPaperTrading(store, asset, amount,
                                                 currency, now, 0)},
                 b \in {withdrawFromPaperTrading(other, asset, amount,
                                                 OtherCurrency(currency),
                                                 now, 0)} :
                 /\ a.ok = b.ok /\ a.err = b.err
                 /\ Ledger(a.store) = Ledger(b.store)

\* the store holds an order in USD and one in INR, and the history holds a
\* cancelled order with a realized PnL
C24_Witness ==
  /\ \E i, j \in 1..Len(trades) :
        trades[i].currency = "USD" /\ trades[j].currency = "INR"
  /\ \E h \in 1..Len(tradeHistory) : tradeHistory[h].currentPnL # <<0>>

\* the positions of the orders that are open
ActiveAt(records) == {i \in 1..Len(records) : isActive(records[i])}

\* a step of pushPriceUpdate that has synthesized closing orders
PassClosed == Len(triggerLog') > Len(triggerLog)

\* C25: every invoked executeOrder and cancelOrder eventually returns (a
\* record or an error): while a call is suspended, a call of its kind is
\* eventually resumed; and every pushPriceUpdate pass ends after
\* synthesizing finitely many closing orders - no more than there were open
\* orders when it started - although it adds them to the trade list while
\* it runs.
C25_OperationsComplete ==
  /\ ([]<>(pendingExec = 0)) \/ ([]<><<ResumeExecute>>_vars)
  /\ ([]<>(pendingCancel = 0)) \/ ([]<><<ResumeCancel>>_vars)
  /\ [][PassClosed =>
          /\ Len(trades') - Len(trades) = Len(triggerLog') - Len(triggerLog)
          /\ Len(trades') - Len(trades) <= Cardinality(ActiveAt(trades))
       ]_vars

\* an executeOrder and a cancelOrder are suspended at once, after a price
\* update has closed an order
C25_Witness ==
  /\ pendingExec > 0
  /\ pendingCancel > 0
  /\ Len(triggerLog) >= 1

\* the entries a price update has added to the trigger log
NewEntries(after) == (Len(triggerLog) + 1)..Len(after.log)

\* C26: when one price update breaches several open orders, their closing
\* executions are synthesized, and applied to the balances, in the order in
\* which the original orders were inserted into the trade list, whatever
\* their assets or sides: the k-th closing of the pass is appended k-th, and
\* it closes an order inserted after the orders closed before it.
C26_TriggerOrder ==
  \A after \in AfterUpdate :
     /\ \A k \in NewEntries(after) :
           LET entry == after.log[k]
               closing == after.store.trades[entry.closing]
           IN /\ entry.target \in ActiveAt(trades)
              /\ entry.closing = Len(trades) + (k - Len(triggerLog))
              /\ closing.symbol = trades[entry.target].symbol
              /\ closing.quantity = trades[entry.target].quantity
              /\ closing.type # trades[entry.target].type
     /\ \A k1, k2 \in NewEntries(after) :
           k1 < k2 => after.log[k1].target < after.log[k2].target

\* two orders are open, a Buy and a Sell, and one price update closes both
C26_Witness ==
  /\ \E i, j \in ActiveAt(trades) : trades[i].type # trades[j].type
  /\ \E after \in AfterUpdate : Len(after.log) >= Len(triggerLog) + 2

\* the sum of currentPnL over records[i..], a record without one adding 0
RECURSIVE SumPnL(_, _)
SumPnL(records, i) ==
  IF i > Len(records) THEN 0
  ELSE (IF records[i].currentPnL = <<>> THEN 0 ELSE records[i].currentPnL[1])
       + SumPnL(records, i + 1)

AfterOneCall ==
  {executePaperTrade(paperTradingStore, order, now, r).store :
     order \in OrderInputs,
     r \in Draws(idsOf(paperTradingStore.trades), "PAPER", now)}
    \cup {cancelPaperTrade(paperTradingStore, orderId).store :
            orderId \in CancelIds}
    \cup {after.store : after \in AfterUpdate}
    \cup {depositToPaperTrading(paperTradingStore, asset, amount, "USD",
                                now, 0).store :
            asset \in FundAssets, amount \in AmountVals}
    \cup {withdrawFromPaperTrading(paperTradingStore, asset, amount, "USD",
                                   now, 0).store :
            asset \in FundAssets, amount \in AmountVals}
    \cup {updateActiveTradeProfitLoss(paperTradingStore)}

\* C28: once an order's status is Cancelled, no later executeOrder,
\* cancelOrder, pushPriceUpdate, deposit, withdraw or getAccountSnapshot
\* sets it back to Executed or Pending: whatever the next call is, every
\* order that is Cancelled now is Cancelled after it, so it stays out of the
\* active set and is not picked up by the Trigger Monitor again.
C28_CancelledIsAbsorbing ==
  \A store \in AfterOneCall :
     \A i \in 1..Len(trades) :
        trades[i].status = "cancelled" =>
          /\ i <= Len(store.trades)
          /\ store.trades[i].orderId = trades[i].orderId
          /\ store.trades[i].status = "cancelled"
          /\ ~isActive(store.trades[i])

\* C29: for every symbol that passes validation, plain (BTC) or pair
\* (BTCUSDT), the balance entry credited by a Buy is the entry that Sell
\* validation checks, and the price entry validation found is the one the
\* Trigger Monitor reads for the order; so a successful Buy of quantity q
\* (the base balance not being negative before it) immediately followed by
\* a Sell of q of the same symbol is accepted.
C29_ConsistentAssetKey ==
  \A o \in ProbeOrders :
     (o.type = "buy" /\ Bal(balances, replaceUSDT(o.symbol)) >= 0) =>
       \A bought \in {executePaperTrade(paperTradingStore, o, now, 0)} :
          bought.ok =>
            LET base == replaceUSDT(o.symbol)
                trade == bought.store.trades[Len(bought.store.trades)]
            IN /\ Bal(bought.store.balances, base)
                    = Bal(balances, base) + o.quantity
               /\ triggerPrice(bought.store.prices, trade)
                    = PriceOf(bought.store.prices, base)
               /\ executePaperTrade(bought.store,
                                    [o EXCEPT !.type = "sell"], now, 1).ok

\* the positions of the orders a pass has closed
NewTargets(after) == {after.log[k].target : k \in NewEntries(after)}

\* C30: a single pushPriceUpdate evaluates exactly the orders that were in
\* the active set when the pass started: it closes each of them that its
\* comparisons trigger at the new prices, and nothing else; a closing order
\* synthesized during the pass is not evaluated in that pass, so the pass
\* synthesizes at most one closing order per order open at its start.
C30_PassOnSnapshot ==
  \A after \in AfterUpdate :
     /\ NewTargets(after)
          = {j \in ActiveAt(trades) :
               triggerKind(after.store.prices, trades[j]) # ""}
     /\ \A k1, k2 \in NewEntries(after) :
           k1 # k2 => after.log[k1].target # after.log[k2].target
     /\ \A k \in NewEntries(after) : after.log[k].target <= Len(trades)
     /\ Len(after.store.trades) - Len(trades)
          = Cardinality(NewTargets(after))
     /\ Cardinality(NewTargets(after)) <= Cardinality(ActiveAt(trades))

\* a price update closes an open order, and the closing order it pushes is
\* itself one that the comparisons of the pass would trigger, yet the pass
\* leaves it alone
C30_Witness ==
  \E after \in AfterUpdate :
     /\ NewTargets(after) # {}
     /\ \E k \in NewEntries(after) :
           LET closing == after.store.trades[after.log[k].closing]
           IN /\ isActive(closing)
              /\ triggerKind(after.store.prices, closing) # ""
====
